---- MODULE Spec2Model ----
(***************************************************************************)
(* Model of scripts/sec_filing_tracker.py: the HTTP JSON fetcher with its  *)
(* retry loop, the filing filter, the report and index writers, the        *)
(* retention sweeper and the main() pipeline that runs them in sequence.   *)
(*                                                                         *)
(* Text (file names, form types, dates, accession numbers) is modelled as  *)
(* sequences of one-character strings, so that trimming, parsing,          *)
(* formatting and lexicographic comparison are computed, not assumed.      *)
(***************************************************************************)
EXTENDS Integers, Sequences, FiniteSets, TLC

VARIABLES
    pc,             \* position of main(): idle, map, loop, write, index, sweep, done, aborted
    today,          \* now_tpe.date() of the current run
    config,         \* the parsed content of config/tickers.json
    tickers,        \* load_tickers() result
    ticker_to_cik,  \* build_ticker_to_cik() result
    it,             \* index of the registry entry the loop of main() is at
    results,        \* results dict of main(): ticker -> filing list
    dir_exists,     \* whether the reports directory exists
    files,          \* reports directory: file name -> content
    index,          \* content of index.md (NoFile when absent)
    files0,         \* <<dir_exists, files>> when the current run started
    index0,         \* index.md when the current run started
    nreq,           \* requests.get calls issued by the current run
    fetched,        \* <<ticker, cik>> of the submissions fetches of the current run
    parsed,         \* tickers for which parse_recent_filings was called
    runs,           \* number of runs started
    steps,          \* the output steps the current run has executed, in order
    hstate,         \* http_get_json: idle, running, returned, raised
    attempt,        \* loop variable of http_get_json
    statuses,       \* outcomes of the requests of the current call, in order
    sleeps,         \* arguments of the time.sleep calls of the current call
    p_subs,         \* filter harness: the submissions document
    p_cutoff,       \* filter harness: the cutoff date
    p_out,          \* filter harness: the returned list
    s_before,       \* sweeper harness: the directory before the call
    s_keep          \* sweeper harness: the keep_days argument

vars == <<pc, today, config, tickers, ticker_to_cik, it, results, dir_exists,
          files, index, files0, index0, nreq, fetched, parsed, runs, steps,
          hstate, attempt, statuses, sleeps, p_subs, p_cutoff, p_out, s_before,
          s_keep>>

runVars == <<pc, today, config, tickers, ticker_to_cik, it, results, dir_exists,
             files, index, files0, index0, fetched, parsed, runs, steps>>

httpVars == <<hstate, attempt, statuses, sleeps, nreq>>

harnessVars == <<p_subs, p_cutoff, p_out, s_before, s_keep>>

\* a file that does not exist
NoFile == [exists |-> FALSE, lines |-> <<>>]

File(lines) == [exists |-> TRUE, lines |-> lines]

----------------------------------------------------------------------------
(* Text *)

\* The characters in use, in code-point order.
Alphabet ==
    <<"\t", "\n", " ", "-", ".", "0", "1", "2", "3", "4", "5", "6", "7", "8",
      "9", "A", "B", "D", "F", "K", "M", "Q", "T", "X",
      "a", "b", "d", "k", "m", "q", "t", "x">>

CharCode(c) == CHOOSE k \in 1..Len(Alphabet) : Alphabet[k] = c

Digits == {"0", "1", "2", "3", "4", "5", "6", "7", "8", "9"}

DigitVal(c) == CharCode(c) - CharCode("0")

DigitChar(n) == Alphabet[CharCode("0") + n]

Whitespace == {" ", "\t", "\n"}

\* str.upper() on the letters of the alphabet
UpperChar(c) ==
    CASE c = "a" -> "A" [] c = "b" -> "B" [] c = "d" -> "D" [] c = "k" -> "K"
      [] c = "m" -> "M" [] c = "q" -> "Q" [] c = "t" -> "T" [] c = "x" -> "X"
      [] OTHER -> c

Upper(s) == [k \in 1..Len(s) |-> UpperChar(s[k])]

RECURSIVE LStrip(_)
LStrip(s) ==
    IF s # <<>> /\ Head(s) \in Whitespace THEN LStrip(Tail(s)) ELSE s

RECURSIVE RStrip(_)
RStrip(s) ==
    IF s # <<>> /\ s[Len(s)] \in Whitespace
    THEN RStrip(SubSeq(s, 1, Len(s) - 1))
    ELSE s

\* str.strip()
Strip(s) == RStrip(LStrip(s))

StartsWith(s, pat) == Len(s) >= Len(pat) /\ SubSeq(s, 1, Len(pat)) = pat

\* str.replace(pat, rep), pat non-empty: every occurrence, left to right
RECURSIVE Replace(_, _, _)
Replace(s, pat, rep) ==
    IF s = <<>> THEN <<>>
    ELSE IF StartsWith(s, pat)
         THEN rep \o Replace(SubSeq(s, Len(pat) + 1, Len(s)), pat, rep)
         ELSE <<Head(s)>> \o Replace(Tail(s), pat, rep)

\* a < b on str: lexicographic by code point
RECURSIVE StrLess(_, _)
StrLess(a, b) ==
    IF b = <<>> THEN FALSE
    ELSE IF a = <<>> THEN TRUE
    ELSE IF Head(a) # Head(b) THEN CharCode(Head(a)) < CharCode(Head(b))
    ELSE StrLess(Tail(a), Tail(b))

----------------------------------------------------------------------------
(* Dates (datetime.date) *)

\* strptime raised ValueError
NoDate == [err |-> "ValueError"]

IsLeap(y) == (y % 4 = 0) /\ ((y % 100 # 0) \/ (y % 400 = 0))

DaysInMonth(y, m) ==
    IF m = 2 THEN (IF IsLeap(y) THEN 29 ELSE 28)
    ELSE IF m \in {4, 6, 9, 11} THEN 30 ELSE 31

DaysBeforeYear(y) ==
    (y - 1) * 365 + ((y - 1) \div 4) - ((y - 1) \div 100) + ((y - 1) \div 400)

RECURSIVE DaysBeforeMonth(_, _)
DaysBeforeMonth(y, m) ==
    IF m = 1 THEN 0 ELSE DaysBeforeMonth(y, m - 1) + DaysInMonth(y, m - 1)

\* date.toordinal()
ToOrdinal(dt) == DaysBeforeYear(dt.y) + DaysBeforeMonth(dt.y, dt.m) + dt.d

\* date.fromordinal(n)
FromOrdinal(n) ==
    LET y == CHOOSE yy \in (n \div 366)..((n \div 365) + 1) :
                 DaysBeforeYear(yy) < n /\ n <= DaysBeforeYear(yy + 1)
        r == n - DaysBeforeYear(y)
        m == CHOOSE mm \in 1..12 :
                 DaysBeforeMonth(y, mm) < r
                 /\ r <= DaysBeforeMonth(y, mm) + DaysInMonth(y, mm)
    IN  [y |-> y, m |-> m, d |-> r - DaysBeforeMonth(y, m)]

\* date - timedelta(days=n)
MinusDays(dt, n) == FromOrdinal(ToOrdinal(dt) - n)

\* date < date: compared as (year, month, day)
DateLess(a, b) ==
    \/ a.y < b.y
    \/ a.y = b.y /\ a.m < b.m
    \/ a.y = b.y /\ a.m = b.m /\ a.d < b.d

Pad2(n) == <<DigitChar(n \div 10), DigitChar(n % 10)>>

\* date.isoformat(): YYYY-MM-DD, zero padded
isoformat(dt) ==
    <<DigitChar(dt.y \div 1000), DigitChar((dt.y \div 100) % 10),
      DigitChar((dt.y \div 10) % 10), DigitChar(dt.y % 10)>>
    \o <<"-">> \o Pad2(dt.m) \o <<"-">> \o Pad2(dt.d)

AllDigits(s) == \A k \in 1..Len(s) : s[k] \in Digits

RECURSIVE Num(_)
Num(s) == IF s = <<>> THEN 0 ELSE 10 * Num(SubSeq(s, 1, Len(s) - 1)) + DigitVal(s[Len(s)])

\* the %m directive: 1[0-2]|0[1-9]|[1-9]
MonthField(s) ==
    \/ Len(s) = 2 /\ s[1] = "1" /\ s[2] \in {"0", "1", "2"}
    \/ Len(s) = 2 /\ s[1] = "0" /\ s[2] \in Digits \ {"0"}
    \/ Len(s) = 1 /\ s[1] \in Digits \ {"0"}

\* the %d directive: 3[0-1]|[1-2]\d|0[1-9]|[1-9]| [1-9]
DayField(s) ==
    \/ Len(s) = 2 /\ s[1] = "3" /\ s[2] \in {"0", "1"}
    \/ Len(s) = 2 /\ s[1] \in {"1", "2"} /\ s[2] \in Digits
    \/ Len(s) = 2 /\ s[1] = "0" /\ s[2] \in Digits \ {"0"}
    \/ Len(s) = 1 /\ s[1] \in Digits \ {"0"}
    \/ Len(s) = 2 /\ s[1] = " " /\ s[2] \in Digits \ {"0"}

\* datetime.strptime(s, "%Y-%m-%d").date(); NoDate when it raises.  The whole
\* text must be consumed, the year is at least 1 and the day exists.
strptime(s) ==
    IF /\ Len(s) >= 8
       /\ AllDigits(SubSeq(s, 1, 4))
       /\ s[5] = "-"
       /\ \E p \in {7, 8} :
            /\ p < Len(s)
            /\ s[p] = "-"
            /\ MonthField(SubSeq(s, 6, p - 1))
            /\ DayField(SubSeq(s, p + 1, Len(s)))
    THEN LET p  == CHOOSE q \in {7, 8} :
                       q < Len(s) /\ s[q] = "-" /\ MonthField(SubSeq(s, 6, q - 1))
                       /\ DayField(SubSeq(s, q + 1, Len(s)))
             y  == Num(SubSeq(s, 1, 4))
             m  == Num(SubSeq(s, 6, p - 1))
             d  == Num(LStrip(SubSeq(s, p + 1, Len(s))))
         IN  IF y >= 1 /\ d <= DaysInMonth(y, m)
             THEN [y |-> y, m |-> m, d |-> d]
             ELSE NoDate
    ELSE NoDate

----------------------------------------------------------------------------
(* Filing filter *)

FORMS == {<<"1", "0", "-", "K">>, <<"1", "0", "-", "Q">>, <<"2", "0", "-", "F">>,
          <<"8", "-", "K">>, <<"6", "-", "K">>}

Min2(a, b) == IF a < b THEN a ELSE b

\* archive_url: the three parts that vary, in the order they are joined
archive_url(cik, accession, primary_doc) ==
    <<cik, Replace(accession, <<"-">>, <<>>), primary_doc>>

\* list.sort(key=..., reverse=True) with the key x["filed"]: a stable sort,
\* records with equal keys keep their order.  InsertDesc puts x after every
\* record whose key is not smaller than its own.
\* InsertDesc without reverse=True: oldest first
RECURSIVE InsertAsc(_, _)
InsertAsc(sorted, x) ==
    IF sorted = <<>> THEN <<x>>
    ELSE IF StrLess(x.filed, Head(sorted).filed)
         THEN <<x>> \o sorted
         ELSE <<Head(sorted)>> \o InsertAsc(Tail(sorted), x)

RECURSIVE InsertDesc(_, _)
InsertDesc(sorted, x) ==
    IF sorted = <<>> THEN <<x>>
    ELSE IF StrLess(Head(sorted).filed, x.filed)
         THEN <<x>> \o sorted
         ELSE <<Head(sorted)>> \o InsertDesc(Tail(sorted), x)

RECURSIVE SortNewestFirst(_)
SortNewestFirst(filings) ==
    IF filings = <<>> THEN <<>>
    ELSE InsertDesc(SortNewestFirst(SubSeq(filings, 1, Len(filings) - 1)),
                    filings[Len(filings)])

\* FilterStep with `filed <= cutoff`: a filing dated on the cutoff is dropped
FilterStepAfterCutoff(submissions, cutoff, filings, k) ==
    LET form  == Strip(submissions.form[k])
        filed == strptime(submissions.filingDate[k])
        acc   == Strip(submissions.accessionNumber[k])
        pdoc  == Strip(submissions.primaryDocument[k])
    IN  IF form \notin FORMS THEN filings
        ELSE IF filed = NoDate THEN filings
        ELSE IF ~DateLess(cutoff, filed) THEN filings
        ELSE IF acc = <<>> \/ pdoc = <<>> THEN filings
        ELSE Append(filings,
                    [form  |-> form,
                     filed |-> isoformat(filed),
                     url   |-> archive_url(submissions.cik, acc, pdoc)])

\* One pass of the loop body of parse_recent_filings at position k: the list
\* with the record appended, or unchanged on each `continue`.
FilterStep(submissions, cutoff, filings, k) ==
    LET form  == Strip(submissions.form[k])
        filed == strptime(submissions.filingDate[k])
        acc   == Strip(submissions.accessionNumber[k])
        pdoc  == Strip(submissions.primaryDocument[k])
    IN  IF form \notin FORMS THEN filings
        ELSE IF filed = NoDate THEN filings
        ELSE IF DateLess(filed, cutoff) THEN filings
        ELSE IF acc = <<>> \/ pdoc = <<>> THEN filings
        ELSE Append(filings,
                    [form  |-> form,
                     filed |-> isoformat(filed),
                     url   |-> archive_url(submissions.cik, acc, pdoc)])

RECURSIVE FilterLoop(_, _, _, _, _)
FilterLoop(submissions, cutoff, filings, k, n) ==
    IF k > n THEN filings
    ELSE FilterLoop(submissions, cutoff,
                    FilterStep(submissions, cutoff, filings, k), k + 1, n)

parse_recent_filings(submissions, cutoff) ==
    LET n == Min2(Min2(Len(submissions.form), Len(submissions.filingDate)),
                  Min2(Len(submissions.accessionNumber),
                       Len(submissions.primaryDocument)))
    IN  SortNewestFirst(FilterLoop(submissions, cutoff, <<>>, 1, n))

----------------------------------------------------------------------------
(* Reports directory, report writer, index writer, retention sweeper *)

\* DATE_RE.match(fn) for ^\d{4}-\d{2}-\d{2}\.md$ ; `$` also matches just
\* before a newline that ends the name.
DATE_RE(fn) ==
    /\ Len(fn) \in {13, 14}
    /\ AllDigits(SubSeq(fn, 1, 4))
    /\ fn[5] = "-"
    /\ AllDigits(SubSeq(fn, 6, 7))
    /\ fn[8] = "-"
    /\ AllDigits(SubSeq(fn, 9, 10))
    /\ SubSeq(fn, 11, 13) = <<".", "m", "d">>
    /\ Len(fn) = 14 => fn[14] = "\n"

MdExt == <<".", "m", "d">>

\* ReportName with the cutoff date taken for the run date
ReportNameOfCutoff(report_date) == isoformat(MinusDays(report_date, 30)) \o MdExt

\* path of the report of a run date: f"{report_date.isoformat()}.md"
ReportName(report_date) == isoformat(report_date) \o MdExt

\* results.get(t, [])
ResultsGet(res, t) == IF t \in DOMAIN res THEN res[t] ELSE <<>>

RECURSIVE FilingLines(_)
FilingLines(filings) ==
    IF filings = <<>> THEN <<>>
    ELSE <<<<"filing", Head(filings).form, Head(filings).filed, Head(filings).url>>>>
         \o FilingLines(Tail(filings))

Placeholder == <<"_No new filings in last 30 days_">>

Blank == <<"">>

\* SectionLines without the else branch: an empty section
SectionLinesNoPlaceholder(item, res) ==
    <<<<"##", item.ticker, item.name>>>>
    \o FilingLines(ResultsGet(res, item.ticker))
    \o <<Blank>>

\* the lines one registry entry adds to the report
SectionLines(item, res) ==
    <<<<"##", item.ticker, item.name>>>>
    \o (IF ResultsGet(res, item.ticker) # <<>>
        THEN FilingLines(ResultsGet(res, item.ticker))
        ELSE <<Placeholder>>)
    \o <<Blank>>

RECURSIVE SectionsFrom(_, _, _)
SectionsFrom(tk, res, k) ==
    IF k > Len(tk) THEN <<>>
    ELSE SectionLines(tk[k], res) \o SectionsFrom(tk, res, k + 1)

\* "\n".join(lines).rstrip(): the blank lines at the end go
RECURSIVE RStripLines(_)
RStripLines(lines) ==
    IF lines # <<>> /\ lines[Len(lines)] = Blank
    THEN RStripLines(SubSeq(lines, 1, Len(lines) - 1))
    ELSE lines

\* the text write_report writes
ReportText(report_date, tk, res) ==
    RStripLines(<<<<"#", isoformat(report_date)>>, Blank>> \o SectionsFrom(tk, res, 1))

\* write_report: the directory after open(path, "w") and the write
write_report(dir, report_date, tk, res) ==
    LET path == ReportName(report_date)
    IN  [fn \in DOMAIN dir \cup {path} |->
            IF fn = path THEN ReportText(report_date, tk, res) ELSE dir[fn]]

\* files.sort(reverse=True) on the names of a directory listing
RECURSIVE SortNamesDesc(_)
SortNamesDesc(names) ==
    IF names = {} THEN <<>>
    ELSE LET top == CHOOSE x \in names : \A y \in names \ {x} : StrLess(y, x)
         IN  <<top>> \o SortNamesDesc(names \ {top})

RECURSIVE LinkLines(_)
LinkLines(fns) ==
    IF fns = <<>> THEN <<>>
    ELSE <<<<"link", Replace(Head(fns), MdExt, <<>>), Head(fns)>>>>
         \o LinkLines(Tail(fns))

\* update_index: the content written to index.md for a directory
update_index(dir) ==
    File(<<<<"# SEC Filing Tracker Reports">>, Blank>>
         \o LinkLines(SortNamesDesc({fn \in DOMAIN dir : DATE_RE(fn)}))
         \o <<Blank>>)

\* Removes with `d <= cutoff`: the file dated on the cutoff goes too
RemovesThroughCutoff(fn, cutoff) ==
    IF ~DATE_RE(fn) THEN FALSE
    ELSE LET d == strptime(Replace(fn, MdExt, <<>>))
         IN  IF d = NoDate THEN FALSE ELSE ~DateLess(cutoff, d)

\* whether the loop body of cleanup_old_reports reaches os.remove for fn
Removes(fn, cutoff) ==
    IF ~DATE_RE(fn) THEN FALSE
    ELSE LET d == strptime(Replace(fn, MdExt, <<>>))
         IN  IF d = NoDate THEN FALSE ELSE DateLess(d, cutoff)

\* cleanup_old_reports: the directory afterwards
cleanup_old_reports(dir, today_tpe, keep_days) ==
    LET cutoff == MinusDays(today_tpe, keep_days)
        kept   == {fn \in DOMAIN dir : ~Removes(fn, cutoff)}
    IN  [fn \in kept |-> dir[fn]]

----------------------------------------------------------------------------
(* Registry loader and identifier map *)

RECURSIVE load_tickers(_)
load_tickers(items) ==
    IF items = <<>> THEN <<>>
    ELSE LET t == Upper(Strip(Head(items).ticker))
             n == Strip(Head(items).name)
         IN  (IF t # <<>> /\ n # <<>> THEN <<[ticker |-> t, name |-> n]>> ELSE <<>>)
             \o load_tickers(Tail(items))

\* int(row["cik_str"]) succeeds
IntOk(s) == Strip(s) # <<>> /\ AllDigits(Strip(s))

\* build_ticker_to_cik on the rows of the mapping document, in order: a row
\* that raises is skipped, a later row for the same ticker overwrites
RECURSIVE build_ticker_to_cik(_, _)
build_ticker_to_cik(rows, mapping) ==
    IF rows = <<>> THEN mapping
    ELSE LET row == Head(rows)
             t   == Upper(row.ticker)
         IN  IF IntOk(row.cik_str)
             THEN build_ticker_to_cik(Tail(rows),
                      [x \in DOMAIN mapping \cup {t} |->
                          IF x = t THEN Num(Strip(row.cik_str)) ELSE mapping[x]])
             ELSE build_ticker_to_cik(Tail(rows), mapping)

\* ticker_to_cik.get(t), 0 standing for None: both fail `if not cik`
CikOf(mapping, t) == IF t \in DOMAIN mapping THEN mapping[t] ELSE 0

----------------------------------------------------------------------------
(* Program constants *)

\* range(4): total tries of http_get_json
MaxTries == 4

\* `attempt < 3`: the last attempt that is followed by a sleep and a retry
LastRetry == 3

\* keep_days of the call in main()
KeepDays == 30

\* timedelta(days=30) of the cutoff in main()
CutoffDays == 30

Retryable == {403, 429, 500, 502, 503, 504}

----------------------------------------------------------------------------
(* Bounds and input sets *)

\* runs of main() one behaviour holds
MaxRuns == 2

\* files in the reports directory before the first run
MaxFiles == 2

\* positions of the parallel arrays of a submissions document
MaxLen == 2

D(y, m, d) == [y |-> y, m |-> m, d |-> d]

\* What one requests.get plus the decoding of its body can come to: a
\* response with a status (and, for a status raise_for_status accepts, a
\* body that decodes as JSON or does not), or an exception of the request.
Resp(status, json) == [kind |-> "response", status |-> status, json |-> json]

RequestException == [kind |-> "exception", status |-> 0, json |-> FALSE]

SuccessStatuses == {200, 204}

ErrorStatuses == Retryable \cup {400, 404}

Outcomes ==
    {Resp(st, js) : st \in SuccessStatuses, js \in BOOLEAN}
    \cup {Resp(st, FALSE) : st \in ErrorStatuses}
    \cup {RequestException}

\* the outcomes drawn inside a whole run: one of each kind
RunOutcomes ==
    {Resp(200, TRUE), Resp(200, FALSE), Resp(503, FALSE), Resp(404, FALSE),
     RequestException}

----------------------------------------------------------------------------
(* http_get_json *)

\* r.raise_for_status() raises
RaisesForStatus(status) == 400 <= status /\ status < 600

\* ShouldRetry with the bound one too far: a retry after the last attempt
ShouldRetryOnceMore(status, att) == status \in Retryable /\ att < LastRetry + 1

\* `r.status_code in (403, ...)` and `attempt < 3`
ShouldRetry(status, att) == status \in Retryable /\ att < LastRetry

\* Backoff with the exponent one short: 1s, 2s, 4s
BackoffFromOne(att) == 2 ^ att

\* 2 ** (attempt + 1)
Backoff(att) == 2 ^ (att + 1)

\* the state of the call after the loop body ran with outcome o
HttpAfter(o, att) ==
    IF o.kind = "exception" THEN "raised"
    ELSE IF ShouldRetry(o.status, att)
         THEN (IF att + 1 < MaxTries THEN "running" ELSE "raised")
    ELSE IF RaisesForStatus(o.status) THEN "raised"
    ELSE IF o.json THEN "returned"
    ELSE "raised"

\* leaving http_get_json: its locals are gone
HttpLeave ==
    /\ hstate' = "idle"
    /\ attempt' = 0
    /\ statuses' = <<>>
    /\ sleeps' = <<>>

\* entering http_get_json
HttpCall ==
    /\ hstate' = "running"
    /\ attempt' = 0
    /\ statuses' = <<>>
    /\ sleeps' = <<>>

\* one pass of the loop body of http_get_json: a request, then a sleep and
\* `continue`, or raise_for_status and the return
HttpRequest(o) ==
    /\ hstate = "running"
    /\ nreq' = nreq + 1
    /\ statuses' = Append(statuses, o)
    /\ hstate' = HttpAfter(o, attempt)
    /\ IF o.kind = "response" /\ ShouldRetry(o.status, attempt)
       THEN /\ sleeps' = Append(sleeps, Backoff(attempt))
            /\ attempt' = attempt + 1
       ELSE UNCHANGED <<sleeps, attempt>>

----------------------------------------------------------------------------
(* Inputs of a run *)

Today0 == D(2024, 3, 1)

\* days the clock of the run date moves on between two runs
DaySteps == {0, 31}

PlusDays(dt, n) == FromOrdinal(ToOrdinal(dt) + n)

OldText == <<<<"# an earlier report">>>>

\* names the reports directory may hold before the first run: a report older
\* than the retention cutoff of Today0, one dated on that cutoff, one of
\* Today0 itself, a name of the pattern that is no date, and another file
InitialNames ==
    {<<"2", "0", "2", "4", "-", "0", "1", "-", "3", "0", ".", "m", "d">>,
     <<"2", "0", "2", "4", "-", "0", "1", "-", "3", "1", ".", "m", "d">>,
     <<"2", "0", "2", "4", "-", "0", "3", "-", "0", "1", ".", "m", "d">>,
     <<"2", "0", "2", "4", "-", "0", "2", "-", "3", "0", ".", "m", "d">>,
     <<"t", "x", "t">>}

StaleIndex ==
    File(<<<<"link", <<"2", "0", "2", "3", "-", "1", "2", "-", "0", "1">>,
             <<"2", "0", "2", "3", "-", "1", "2", "-", "0", "1", ".", "m", "d">>>>>>)

\* config/tickers.json: entries to normalise, one of them incomplete
Configs ==
    {<<[ticker |-> <<" ", "a">>, name |-> <<"A">>],
       [ticker |-> <<"x">>, name |-> <<"X", " ">>],
       [ticker |-> <<"b">>, name |-> <<"B">>]>>,
     <<[ticker |-> <<"q">>, name |-> <<" ">>],
       [ticker |-> <<"b", "\t">>, name |-> <<"B">>]>>}

\* company_tickers.json: its rows in order; a malformed identifier, an
\* identifier 0 and a ticker listed twice are among them
MapDocs ==
    {<<[ticker |-> <<"a">>, cik_str |-> <<"5">>],
       [ticker |-> <<"b">>, cik_str |-> <<"7">>]>>,
     <<[ticker |-> <<"a">>, cik_str |-> <<"x">>],
       [ticker |-> <<"B">>, cik_str |-> <<"0">>]>>,
     <<[ticker |-> <<"b">>, cik_str |-> <<"5">>],
       [ticker |-> <<"b">>, cik_str |-> <<"7">>]>>}

\* submissions documents a filer's fetch may return
RunDocs ==
    {[cik |-> 0,
      form |-> <<<<"8", "-", "K">>, <<"1", "0", "-", "K", " ">>, <<"4">>>>,
      filingDate |-> <<<<"2", "0", "2", "4", "-", "0", "2", "-", "1", "5">>,
                       <<"2", "0", "2", "4", "-", "3", "-", "1">>,
                       <<"2", "0", "2", "4", "-", "0", "3", "-", "0", "1">>>>,
      accessionNumber |-> <<<<"1", "-", "2">>, <<"3", "-", "4">>, <<"5">>>>,
      primaryDocument |-> <<<<"a">>, <<"b">>, <<"d">>>>],
     [cik |-> 0, form |-> <<>>, filingDate |-> <<>>,
      accessionNumber |-> <<>>, primaryDocument |-> <<>>]}

----------------------------------------------------------------------------
(* main() *)

\* main() up to the first request: the run date is read, the registry is
\* loaded, build_ticker_to_cik enters http_get_json
StartRun ==
    /\ pc \in {"idle", "done", "aborted"}
    /\ runs < MaxRuns
    /\ runs' = runs + 1
    /\ \E step \in DaySteps : today' = IF runs = 0 THEN today ELSE PlusDays(today, step)
    /\ \E c \in Configs : config' = c /\ tickers' = load_tickers(c)
    /\ ticker_to_cik' = <<>>
    /\ results' = <<>>
    /\ it' = 0
    /\ files0' = <<dir_exists, files>>
    /\ index0' = index
    /\ nreq' = 0
    /\ fetched' = <<>>
    /\ parsed' = <<>>
    /\ steps' = <<>>
    /\ pc' = "map"
    /\ HttpCall
    /\ UNCHANGED <<dir_exists, files, index>>
    /\ UNCHANGED harnessVars

\* a pass of the loop of http_get_json inside the run
RunRequest ==
    /\ pc \in {"map", "loop"}
    /\ \E o \in RunOutcomes : HttpRequest(o)
    /\ UNCHANGED runVars
    /\ UNCHANGED harnessVars

\* the rest of build_ticker_to_cik, once the mapping document is there
BuildMap ==
    /\ pc = "map"
    /\ hstate = "returned"
    /\ \E data \in MapDocs : ticker_to_cik' = build_ticker_to_cik(data, <<>>)
    /\ pc' = "loop"
    /\ it' = 1
    /\ HttpLeave
    /\ UNCHANGED <<today, config, tickers, results, dir_exists, files, index,
                   files0, index0, fetched, parsed, runs, steps>>
    /\ UNCHANGED nreq
    /\ UNCHANGED harnessVars

\* loop of main(): `if not cik`, the empty list and `continue`
TickerUnmapped ==
    /\ pc = "loop"
    /\ hstate = "idle"
    /\ it <= Len(tickers)
    /\ CikOf(ticker_to_cik, tickers[it].ticker) = 0
    /\ results' = [x \in DOMAIN results \cup {tickers[it].ticker} |->
                      IF x = tickers[it].ticker THEN <<>> ELSE results[x]]
    /\ it' = it + 1
    /\ UNCHANGED <<pc, today, config, tickers, ticker_to_cik, dir_exists, files,
                   index, files0, index0, fetched, parsed, runs, steps>>
    /\ UNCHANGED httpVars
    /\ UNCHANGED harnessVars

\* loop of main(): http_get_json(submissions_url(cik)) is entered
TickerFetch ==
    /\ pc = "loop"
    /\ hstate = "idle"
    /\ it <= Len(tickers)
    /\ CikOf(ticker_to_cik, tickers[it].ticker) # 0
    /\ fetched' = Append(fetched, <<tickers[it].ticker,
                                    CikOf(ticker_to_cik, tickers[it].ticker)>>)
    /\ HttpCall
    /\ UNCHANGED <<pc, today, config, tickers, ticker_to_cik, it, results,
                   dir_exists, files, index, files0, index0, parsed, runs, steps, nreq>>
    /\ UNCHANGED harnessVars

\* TickerParse with the report written as each ticker is done
TickerParseWritesAsItGoes ==
    /\ pc = "loop"
    /\ hstate = "returned"
    /\ \E doc \in RunDocs :
         LET t    == tickers[it].ticker
             subs == [doc EXCEPT !.cik = CikOf(ticker_to_cik, t)]
             out  == parse_recent_filings(subs, MinusDays(today, CutoffDays))
         IN  results' = [x \in DOMAIN results \cup {t} |->
                            IF x = t THEN out ELSE results[x]]
    /\ parsed' = Append(parsed, tickers[it].ticker)
    /\ it' = it + 1
    /\ HttpLeave
    /\ dir_exists' = TRUE
    /\ files' = write_report(files, today, tickers, results')
    /\ UNCHANGED <<pc, today, config, tickers, ticker_to_cik,
                   index, files0, index0, fetched, runs, steps>>
    /\ UNCHANGED nreq
    /\ UNCHANGED harnessVars

\* loop of main(): the document is there; time.sleep(0.2), subs["cik"] = cik
\* and results[t] = parse_recent_filings(subs, cutoff)
TickerParse ==
    /\ pc = "loop"
    /\ hstate = "returned"
    /\ \E doc \in RunDocs :
         LET t    == tickers[it].ticker
             subs == [doc EXCEPT !.cik = CikOf(ticker_to_cik, t)]
             out  == parse_recent_filings(subs, MinusDays(today, CutoffDays))
         IN  results' = [x \in DOMAIN results \cup {t} |->
                            IF x = t THEN out ELSE results[x]]
    /\ parsed' = Append(parsed, tickers[it].ticker)
    /\ it' = it + 1
    /\ HttpLeave
    /\ UNCHANGED <<pc, today, config, tickers, ticker_to_cik, dir_exists, files,
                   index, files0, index0, fetched, runs, steps>>
    /\ UNCHANGED nreq
    /\ UNCHANGED harnessVars

\* Abort with the failed call made again instead of the error leaving main()
AbortRetriesCall ==
    /\ pc \in {"map", "loop"}
    /\ hstate = "raised"
    /\ HttpCall
    /\ UNCHANGED <<pc, today, config, tickers, ticker_to_cik, it, results,
                   dir_exists, files, index, files0, index0, fetched, parsed, runs,
                   steps>>
    /\ UNCHANGED nreq
    /\ UNCHANGED harnessVars

\* the error of http_get_json leaves build_ticker_to_cik or the loop and
\* main(): nothing catches it
Abort ==
    /\ pc \in {"map", "loop"}
    /\ hstate = "raised"
    /\ pc' = "aborted"
    /\ HttpLeave
    /\ UNCHANGED <<today, config, tickers, ticker_to_cik, it, results, dir_exists,
                   files, index, files0, index0, fetched, parsed, runs, steps>>
    /\ UNCHANGED nreq
    /\ UNCHANGED harnessVars

\* write_report(report_date, tickers, results), the loop being over
WriteReport ==
    /\ pc = "loop"
    /\ hstate = "idle"
    /\ it > Len(tickers)
    /\ dir_exists' = TRUE
    /\ files' = write_report(files, today, tickers, results)
    /\ pc' = "index"
    /\ UNCHANGED <<today, config, tickers, ticker_to_cik, it, results, index,
                   files0, index0, fetched, parsed, runs>>
    /\ steps' = Append(steps, "write_report")
    /\ UNCHANGED httpVars
    /\ UNCHANGED harnessVars

\* update_index()
UpdateIndex ==
    /\ pc = "index"
    /\ index' = update_index(files)
    /\ pc' = "sweep"
    /\ UNCHANGED <<today, config, tickers, ticker_to_cik, it, results, dir_exists,
                   files, files0, index0, fetched, parsed, runs>>
    /\ steps' = Append(steps, "update_index")
    /\ UNCHANGED httpVars
    /\ UNCHANGED harnessVars

\* cleanup_old_reports(report_date, keep_days=30)
Cleanup ==
    /\ pc = "sweep"
    /\ files' = cleanup_old_reports(files, today, KeepDays)
    /\ pc' = "done"
    /\ UNCHANGED <<today, config, tickers, ticker_to_cik, it, results, dir_exists,
                   index, files0, index0, fetched, parsed, runs>>
    /\ steps' = Append(steps, "cleanup_old_reports")
    /\ UNCHANGED httpVars
    /\ UNCHANGED harnessVars

HarnessIdle ==
    /\ p_subs = <<>>
    /\ p_cutoff = Today0
    /\ p_out = <<>>
    /\ s_before = <<>>
    /\ s_keep = 0

HttpIdle ==
    /\ hstate = "idle"
    /\ attempt = 0
    /\ statuses = <<>>
    /\ sleeps = <<>>
    /\ nreq = 0

RunIdle ==
    /\ config = <<>>
    /\ tickers = <<>>
    /\ ticker_to_cik = <<>>
    /\ it = 0
    /\ results = <<>>
    /\ fetched = <<>>
    /\ parsed = <<>>
    /\ runs = 0
    /\ steps = <<>>

\* Before the first run: any directory of at most MaxFiles of the names
\* (or none yet), and an index file that is absent or stale.
Init ==
    /\ pc = "idle"
    /\ RunIdle
    /\ today = Today0
    /\ HttpIdle
    /\ HarnessIdle
    /\ \E names \in SUBSET InitialNames :
         /\ Cardinality(names) <= MaxFiles
         /\ files = [fn \in names |-> OldText]
         /\ dir_exists \in (IF names = {} THEN BOOLEAN ELSE {TRUE})
    /\ index \in {NoFile, StaleIndex}
    /\ files0 = <<dir_exists, files>>
    /\ index0 = index

Next ==
    \/ StartRun
    \/ RunRequest
    \/ BuildMap
    \/ TickerUnmapped
    \/ TickerFetch
    \/ TickerParse
    \/ Abort
    \/ WriteReport
    \/ UpdateIndex
    \/ Cleanup

Spec == Init /\ [][Next]_vars

----------------------------------------------------------------------------
(* http_get_json on its own: one call, every outcome of every request *)

FetchInit ==
    /\ pc = "fetch"
    /\ RunIdle
    /\ today = Today0
    /\ HarnessIdle
    /\ dir_exists = FALSE
    /\ files = <<>>
    /\ index = NoFile
    /\ files0 = <<FALSE, <<>>>>
    /\ index0 = NoFile
    /\ hstate = "running"
    /\ attempt = 0
    /\ statuses = <<>>
    /\ sleeps = <<>>
    /\ nreq = 0

FetchRequest ==
    /\ pc = "fetch"
    /\ \E o \in Outcomes : HttpRequest(o)
    /\ UNCHANGED runVars
    /\ UNCHANGED harnessVars

FetchNext == FetchRequest

SpecFetch == FetchInit /\ [][FetchNext]_vars

----------------------------------------------------------------------------
(* parse_recent_filings on its own *)

\* One position of the four parallel arrays: form, filingDate,
\* accessionNumber, primaryDocument.
Entries ==
    {<<<<"8", "-", "K">>, <<"2", "0", "2", "4", "-", "0", "1", "-", "3", "1">>,
       <<"1", "-", "2">>, <<"a">>>>,
     <<<<" ", "1", "0", "-", "K", " ">>, <<"2", "0", "2", "4", "-", "2", "-", "9">>,
       <<" ", "3">>, <<"b">>>>,
     <<<<"1", "0", "-", "Q">>, <<"2", "0", "2", "4", "-", "0", "2", "-", "2", "9">>,
       <<"4">>, <<"d", "\n">>>>,
     <<<<"4">>, <<"2", "0", "2", "4", "-", "0", "2", "-", "2", "9">>,
       <<"4">>, <<"d">>>>,
     <<<<"8", "-", "k">>, <<"2", "0", "2", "4", "-", "0", "3", "-", "0", "1">>,
       <<"4">>, <<"d">>>>,
     <<<<"8", "-", "K">>, <<"2", "0", "2", "4", "-", "0", "2", "-", "3", "0">>,
       <<"5">>, <<"a">>>>,
     <<<<"6", "-", "K">>, <<"2", "0", "2", "4", "-", "0", "1", "-", "3", "0">>,
       <<"6">>, <<"a">>>>,
     <<<<"2", "0", "-", "F">>, <<"2", "0", "2", "4", "-", "3", "-", "1">>,
       <<" ">>, <<"a">>>>,
     <<<<"8", "-", "K">>, <<"2", "0", "2", "4", "-", "3", "-", "1">>,
       <<"7">>, <<>>>>,
     <<<<"8", "-", "K">>, <<"2", "0", "2", "4", "-", "0", "3", "-", "0", "1">>,
       <<"7", "-", "8">>, <<"b">>>>,
     <<<<"1", "0", "-", "K">>, <<"2", "0", "2", "4", "0", "3", "0", "1">>,
       <<"9">>, <<"b">>>>}

RECURSIVE EntrySeqs(_)
EntrySeqs(n) ==
    IF n = 0 THEN {<<>>}
    ELSE EntrySeqs(n - 1)
         \cup {Append(q, e) : q \in {r \in EntrySeqs(n - 1) : Len(r) = n - 1}, e \in Entries}

Column(q, c) == [k \in 1..Len(q) |-> q[k][c]]

\* all but the last element: the array that came one short
Short(arr) == SubSeq(arr, 1, Len(arr) - 1)

\* the document of the rows q, the array number `short` (none for 0) one short
DocOf(q, short) ==
    [cik |-> 5,
     form            |-> IF short = 1 THEN Short(Column(q, 1)) ELSE Column(q, 1),
     filingDate      |-> IF short = 2 THEN Short(Column(q, 2)) ELSE Column(q, 2),
     accessionNumber |-> IF short = 3 THEN Short(Column(q, 3)) ELSE Column(q, 3),
     primaryDocument |-> IF short = 4 THEN Short(Column(q, 4)) ELSE Column(q, 4)]

ParseDocs == {DocOf(q, short) : q \in EntrySeqs(MaxLen), short \in 0..4}

ParseCutoffs == {D(2024, 1, 31), D(2024, 3, 1)}

ParseInit ==
    /\ pc = "parse_input"
    /\ RunIdle
    /\ today = Today0
    /\ HttpIdle
    /\ dir_exists = FALSE
    /\ files = <<>>
    /\ index = NoFile
    /\ files0 = <<FALSE, <<>>>>
    /\ index0 = NoFile
    /\ p_subs \in ParseDocs
    /\ p_cutoff \in ParseCutoffs
    /\ p_out = <<>>
    /\ s_before = <<>>
    /\ s_keep = 0

ParseCall ==
    /\ pc = "parse_input"
    /\ p_out' = parse_recent_filings(p_subs, p_cutoff)
    /\ pc' = "parse_done"
    /\ UNCHANGED <<today, config, tickers, ticker_to_cik, it, results, dir_exists,
                   files, index, files0, index0, fetched, parsed, runs, steps>>
    /\ UNCHANGED httpVars
    /\ UNCHANGED <<p_subs, p_cutoff, s_before, s_keep>>

ParseNext == ParseCall

SpecParse == ParseInit /\ [][ParseNext]_vars

----------------------------------------------------------------------------
(* cleanup_old_reports on its own *)

\* files in the directory handed to the sweeper
MaxSweepFiles == 3

SweepNames ==
    {<<"2", "0", "2", "4", "-", "0", "1", "-", "3", "0", ".", "m", "d">>,
     <<"2", "0", "2", "4", "-", "0", "1", "-", "3", "1", ".", "m", "d">>,
     <<"2", "0", "2", "4", "-", "0", "2", "-", "0", "1", ".", "m", "d">>,
     <<"2", "0", "2", "4", "-", "0", "2", "-", "2", "8", ".", "m", "d">>,
     <<"2", "0", "2", "4", "-", "0", "2", "-", "2", "9", ".", "m", "d">>,
     <<"2", "0", "2", "4", "-", "0", "3", "-", "0", "1", ".", "m", "d">>,
     <<"2", "0", "2", "4", "-", "0", "2", "-", "3", "0", ".", "m", "d">>,
     <<"2", "0", "2", "4", "-", "0", "1", "-", "3", "0", ".", "m", "d", "\n">>,
     <<"2", "0", "2", "4", "-", "1", "-", "3", "0", ".", "m", "d">>,
     <<"0", "0", "0", "0", "-", "0", "1", "-", "0", "1", ".", "m", "d">>,
     <<"t", "x", "t">>}

SweepDays == {D(2024, 3, 1), D(2024, 3, 2)}

SweepKeeps == {0, 1, KeepDays}

SweepInit ==
    /\ pc = "sweep_input"
    /\ RunIdle
    /\ today \in SweepDays
    /\ HttpIdle
    /\ dir_exists = TRUE
    /\ \E names \in SUBSET SweepNames :
         /\ Cardinality(names) <= MaxSweepFiles
         /\ files = [fn \in names |-> <<<<"#", fn>>>>]
    /\ index = NoFile
    /\ files0 = <<TRUE, files>>
    /\ index0 = NoFile
    /\ p_subs = <<>>
    /\ p_cutoff = Today0
    /\ p_out = <<>>
    /\ s_before = files
    /\ s_keep \in SweepKeeps

\* cleanup_old_reports(today, s_keep)
SweepCall ==
    /\ pc = "sweep_input"
    /\ files' = cleanup_old_reports(files, today, s_keep)
    /\ pc' = "sweep_done"
    /\ UNCHANGED <<today, config, tickers, ticker_to_cik, it, results, dir_exists,
                   index, files0, index0, fetched, parsed, runs, steps>>
    /\ UNCHANGED httpVars
    /\ UNCHANGED harnessVars

SweepNext == SweepCall

SpecSweep == SweepInit /\ [][SweepNext]_vars

----------------------------------------------------------------------------
(* Properties *)

\* the file names index.md links
IndexLinks(idx) ==
    {idx.lines[k][3] : k \in {j \in 1..Len(idx.lines) : idx.lines[j][1] = "link"}}

\* C1: when a run of main() has completed, index.md links exactly the files
\* of the pattern YYYY-MM-DD.md that are in the reports directory.
C1_IndexMatchesDirectory ==
    pc = "done" =>
        /\ index.exists
        /\ IndexLinks(index) = {fn \in DOMAIN files : DATE_RE(fn)}

\* C2: a run that a terminal error of http_get_json aborted has executed none
\* of write_report, update_index, cleanup_old_reports, and the reports
\* directory and index.md are as they were when the run started.
C2_AbortLeavesOutputsUntouched ==
    pc = "aborted" =>
        /\ steps = <<>>
        /\ <<dir_exists, files>> = files0
        /\ index = index0

\* a run aborted by its second submissions fetch, after a first ticker was
\* fetched and filtered, with reports and an index already on disk
C2_Witness ==
    /\ pc = "aborted"
    /\ Len(parsed) = 1
    /\ Len(fetched) = 2
    /\ DOMAIN files # {}
    /\ index.exists

\* a response whose status is one of the six retryable ones
RetryableResponse(o) ==
    o.kind = "response" /\ o.status \in {403, 429, 500, 502, 503, 504}

\* C3: in http_get_json the k-th request, when it is not the 4th and its
\* response has a retryable status, is followed by a sleep of 2^k seconds
\* (2s, 4s, 8s before the 2nd, 3rd, 4th attempt) and another request; there
\* is no sleep before the first request nor after the last; a response 200
\* (with its JSON) at any of the at most 4 attempts is returned.
C3_RetryWithBackoff ==
    LET n == Len(statuses)
    IN  /\ n <= 4
        /\ \A k \in 1..Len(sleeps) :
             sleeps[k] = 2 ^ k /\ k < 4 /\ RetryableResponse(statuses[k])
        /\ hstate = "running" => Len(sleeps) = n
        /\ hstate \in {"returned", "raised"} => Len(sleeps) = n - 1
        /\ (n \in 1..3 /\ RetryableResponse(statuses[n])) => hstate = "running"
        /\ (n >= 1 /\ statuses[n] = Resp(200, TRUE)) => hstate = "returned"

\* three responses 503, then 200: returned after sleeping 2 + 4 + 8 seconds
C3_Witness ==
    /\ hstate = "returned"
    /\ statuses = <<Resp(503, FALSE), Resp(503, FALSE), Resp(503, FALSE), Resp(200, TRUE)>>
    /\ sleeps = <<2, 4, 8>>

\* the last response carries an error status that is not retryable
FatalByStatus ==
    LET last == statuses[Len(statuses)]
    IN  /\ last.kind = "response"
        /\ last.status >= 400
        /\ last.status \notin {403, 429, 500, 502, 503, 504}

\* all 4 attempts returned a retryable status
FatalByExhaustion ==
    /\ Len(statuses) = 4
    /\ \A k \in 1..4 : RetryableResponse(statuses[k])

\* the last request raised instead of returning a response
FatalByRequest == statuses[Len(statuses)].kind = "exception"

\* the last response has a status that is no error and a body that is no JSON
FatalByBody ==
    LET last == statuses[Len(statuses)]
    IN  last.kind = "response" /\ last.status < 400 /\ ~last.json

\* C4 as stated: http_get_json ends in a fatal error exactly when a response
\* carries a non-retryable error status or all 4 attempts returned a
\* retryable status, with no sleep after the failing request.
C4_FatalExactlyTwoCases ==
    hstate \in {"returned", "raised"} =>
        /\ hstate = "raised" <=> (FatalByStatus \/ FatalByExhaustion)
        /\ Len(sleeps) = Len(statuses) - 1

\* C4 amended: http_get_json ends in a fatal error exactly when a response
\* carries a non-retryable error status, or all 4 attempts returned a
\* retryable status, or a request itself raised, or a response with no error
\* status has a body that does not decode; it fails on that attempt, with no
\* sleep after it and never a 5th request.
C4_FatalCases ==
    hstate \in {"returned", "raised"} =>
        /\ hstate = "raised" <=>
             (FatalByStatus \/ FatalByExhaustion \/ FatalByRequest \/ FatalByBody)
        /\ Len(sleeps) = Len(statuses) - 1
        /\ Len(statuses) <= 4
        /\ FatalByExhaustion => sleeps = <<2, 4, 8>>

\* four responses 429: a fatal error after the 4th request
C4_Witness ==
    /\ hstate = "raised"
    /\ statuses = <<Resp(429, FALSE), Resp(429, FALSE), Resp(429, FALSE), Resp(429, FALSE)>>
    /\ sleeps = <<2, 4, 8>>

\* a name that reads YYYY-MM-DD.md, digits for the letters
DatedName(fn) ==
    /\ Len(fn) = 13
    /\ \A k \in {1, 2, 3, 4, 6, 7, 9, 10} : fn[k] \in Digits
    /\ fn[5] = "-" /\ fn[8] = "-"
    /\ fn[11] = "." /\ fn[12] = "m" /\ fn[13] = "d"

\* a dated report whose date is strictly more than keep days before day
OlderThanKept(fn, day, keep) ==
    /\ DatedName(fn)
    /\ LET d == strptime(SubSeq(fn, 1, 10))
       IN  IF d = NoDate THEN FALSE ELSE ToOrdinal(d) < ToOrdinal(day) - keep

\* C5: cleanup_old_reports(today, keepDays) deletes exactly the files named
\* YYYY-MM-DD.md whose name is a date strictly older than today - keepDays;
\* every other file stays, with its content.
C5_SweepDeletesExactlyOld ==
    pc = "sweep_done" =>
        /\ DOMAIN files = {fn \in DOMAIN s_before : ~OlderThanKept(fn, today, s_keep)}
        /\ \A fn \in DOMAIN files : files[fn] = s_before[fn]

\* swept on 2024-03-01 with 30 days kept: the report of 2024-01-31 stays, the
\* report of 2024-01-30 is gone, the name 2024-02-30.md (no date) stays
C5_Witness ==
    /\ pc = "sweep_done"
    /\ today = D(2024, 3, 1)
    /\ s_keep = 30
    /\ <<"2", "0", "2", "4", "-", "0", "1", "-", "3", "1", ".", "m", "d">> \in DOMAIN files
    /\ <<"2", "0", "2", "4", "-", "0", "1", "-", "3", "0", ".", "m", "d">>
           \in DOMAIN s_before \ DOMAIN files
    /\ <<"2", "0", "2", "4", "-", "0", "2", "-", "3", "0", ".", "m", "d">> \in DOMAIN files

\* position k is below the length of each of the four arrays, its trimmed
\* form is accepted, its date parses and is not before the cutoff, and its
\* accession number and document name are not empty once trimmed
Qualifies(subs, cutoff, k) ==
    /\ k <= Len(subs.form) /\ k <= Len(subs.filingDate)
    /\ k <= Len(subs.accessionNumber) /\ k <= Len(subs.primaryDocument)
    /\ Strip(subs.form[k]) \in
         {<<"1", "0", "-", "K">>, <<"1", "0", "-", "Q">>, <<"2", "0", "-", "F">>,
          <<"8", "-", "K">>, <<"6", "-", "K">>}
    /\ LET d == strptime(subs.filingDate[k])
       IN  IF d = NoDate THEN FALSE ELSE ToOrdinal(d) >= ToOrdinal(cutoff)
    /\ Strip(subs.accessionNumber[k]) # <<>>
    /\ Strip(subs.primaryDocument[k]) # <<>>

\* the record of a qualifying position
RecordAt(subs, k) ==
    [form  |-> Strip(subs.form[k]),
     filed |-> isoformat(strptime(subs.filingDate[k])),
     url   |-> <<subs.cik, Replace(Strip(subs.accessionNumber[k]), <<"-">>, <<>>),
                 Strip(subs.primaryDocument[k])>>]

QualifyingPositions(subs, cutoff) ==
    {k \in 1..Len(subs.form) : Qualifies(subs, cutoff, k)}

\* C7: the list parse_recent_filings returns holds one record per qualifying
\* position and nothing else: as many records as qualifying positions, and
\* each position's record as often as positions produce it.
C7_RecordsAreQualifyingPositions ==
    pc = "parse_done" =>
        LET ok == QualifyingPositions(p_subs, p_cutoff)
        IN  /\ Len(p_out) = Cardinality(ok)
            /\ \A k \in ok :
                 Cardinality({j \in 1..Len(p_out) : p_out[j] = RecordAt(p_subs, k)})
                 = Cardinality({j \in ok : RecordAt(p_subs, j) = RecordAt(p_subs, k)})

\* arrays of unequal length, a filing dated on the cutoff at position 1 kept,
\* position 2 beyond the shortest array and left out
C7_Witness ==
    /\ pc = "parse_done"
    /\ Len(p_subs.form) = 2
    /\ Len(p_subs.primaryDocument) = 1
    /\ strptime(p_subs.filingDate[1]) = p_cutoff
    /\ Strip(p_subs.form[2]) \in FORMS
    /\ Len(p_out) = 1

\* C8: in the returned list a filing with a later filed date stands before
\* every filing with an earlier one.
C8_NewestFirst ==
    pc = "parse_done" =>
        \A j \in 1..Len(p_out) : \A k \in 1..Len(p_out) :
            ToOrdinal(strptime(p_out[j].filed)) > ToOrdinal(strptime(p_out[k].filed))
                => j < k

\* two filings kept, the earlier one first in the source arrays and last in
\* the returned list
C8_Witness ==
    /\ pc = "parse_done"
    /\ Len(p_subs.form) = 2
    /\ Len(p_out) = 2
    /\ p_out[1].filed # p_out[2].filed
    /\ p_out[2] = RecordAt(p_subs, 1)
    /\ p_out[1] = RecordAt(p_subs, 2)

\* C6 as stated: a report a run has written keeps its content in every later
\* step in which it still exists.
C6_NeverMutated ==
    [][\A fn \in DOMAIN files \cap DOMAIN files' :
          files[fn] # OldText => files'[fn] = files[fn]]_vars

\* C6 amended: the content of a file of the reports directory changes only
\* when write_report of a run rewrites the report of that run's own date (a
\* second run on the same date does); a run on another date leaves it as it
\* is, and a file goes only when cleanup_old_reports deletes it as a dated
\* report older than the retention cutoff.
C6_OnlySameDateRunRewrites ==
    [][\A fn \in DOMAIN files :
          /\ (fn \in DOMAIN files' /\ files'[fn] # files[fn]) =>
                /\ pc = "loop" /\ pc' = "index"
                /\ DatedName(fn)
                /\ strptime(SubSeq(fn, 1, 10)) = today
          /\ fn \notin DOMAIN files' =>
                /\ pc = "sweep" /\ pc' = "done"
                /\ OlderThanKept(fn, today, 30)]_vars

\* a second run on the date of the first has rewritten that date's report
\* with other content, next to a file it left alone
C6_Witness ==
    /\ runs = 2
    /\ pc = "index"
    /\ LET fn == isoformat(today) \o <<".", "m", "d">>
       IN  /\ fn \in DOMAIN files0[2]
           /\ files0[2][fn] # OldText
           /\ files[fn] # files0[2][fn]
           /\ \E other \in DOMAIN files0[2] \ {fn} :
                other \in DOMAIN files /\ files[other] = files0[2][other]

\* the line after the j-th heading of a report
LineAfterHeading(lines, j) ==
    LET heads == {k \in 1..Len(lines) : lines[k][1] = "##"}
        at    == CHOOSE k \in heads : Cardinality({h \in heads : h <= k}) = j
    IN  lines[at + 1]

\* C9: a registry ticker with no entry in the identifier map gets no
\* submissions fetch and no call of the filter, has the empty list recorded
\* once the loop has passed it, does not stop the loop, and its section of
\* the report is the placeholder line.
C9_UnmappedTickerGetsPlaceholder ==
    pc \in {"loop", "index", "sweep", "done", "aborted"} =>
        \A j \in 1..Len(tickers) :
            LET t == tickers[j].ticker
            IN  t \notin DOMAIN ticker_to_cik =>
                    /\ \A k \in 1..Len(fetched) : fetched[k][1] # t
                    /\ \A k \in 1..Len(parsed) : parsed[k] # t
                    /\ (j < it) => (t \in DOMAIN results /\ results[t] = <<>>)
                    /\ pc \in {"index", "sweep", "done"} =>
                         /\ it = Len(tickers) + 1
                         /\ LineAfterHeading(files[isoformat(today) \o <<".", "m", "d">>], j)
                              = <<"_No new filings in last 30 days_">>

\* a finished run whose registry has an unmapped ticker before a mapped one
\* that was fetched, filtered and has filings
C9_Witness ==
    /\ pc = "done"
    /\ \E j \in 1..Len(tickers) : \E k \in 1..Len(tickers) :
         /\ j < k
         /\ tickers[j].ticker \notin DOMAIN ticker_to_cik
         /\ parsed = <<tickers[k].ticker>>
         /\ results[tickers[k].ticker] # <<>>

\* steps the current call of http_get_json can still take, the step that
\* consumes its result included
CallRank == IF hstate = "running" THEN (4 - Len(statuses)) + 1 ELSE 1

\* steps the current run can still take: at most 6 per registry entry to
\* come (enter the call, 4 requests, consume), then the 3 output steps
Rank ==
    CASE pc = "map"   -> CallRank + 6 * Len(tickers) + 3
      [] pc = "loop"  -> (IF hstate = "idle"
                          THEN 6 * (Len(tickers) - it + 1)
                          ELSE CallRank + 6 * (Len(tickers) - it)) + 3
      [] pc = "index" -> 2
      [] pc = "sweep" -> 1
      [] OTHER        -> 0

\* the steps of a run before its output steps
FetchPhaseStep ==
    RunRequest \/ BuildMap \/ TickerUnmapped \/ TickerFetch \/ TickerParse \/ Abort

\* C10: a run issues at most 4 requests per call of http_get_json, one call
\* for the identifier map and at most one per registry entry, so at most
\* 4 * (N + 1) requests; an aborted run issues no further request; and a
\* run that has started always has a next step (a step of the fetch phase,
\* or the loop is over and the three output steps follow), each step bringing
\* it closer to done or aborted: it ends within 6 * N + 8 steps.
C10_RunTerminatesBounded ==
    /\ [](/\ Len(statuses) <= 4
          /\ Len(fetched) <= Len(tickers)
          /\ nreq <= 4 * (Len(fetched) + 1)
          /\ nreq <= 4 * (Len(tickers) + 1)
          /\ Rank >= 0
          /\ Rank <= 6 * Len(tickers) + 8
          /\ pc \in {"map", "loop"} =>
                \/ ENABLED FetchPhaseStep
                \/ (hstate = "idle" /\ it > Len(tickers)))
    /\ [][/\ pc = "aborted" => (nreq' = nreq \/ runs' = runs + 1)
          /\ pc \in {"map", "loop", "index", "sweep"} =>
               (Rank' < Rank /\ pc' \in {"map", "loop", "index", "sweep", "done", "aborted"})]_vars

\* a finished run that used all 4 attempts of each of its calls: the map and
\* its one registry entry, 8 requests
C10_Witness ==
    /\ pc = "done"
    /\ Len(tickers) = 1
    /\ nreq = 8

====
